---- MODULE Spec2Model ----
(***************************************************************************)
(* Model of the ImageToPdfConverter component (src/app/page.tsx).          *)
(*                                                                         *)
(* The component is single threaded: every handler and every continuation  *)
(* of an awaited promise runs to its next suspension point without         *)
(* interleaving, and React commits the render (and runs the effect         *)
(* cleanups the render causes) before the next event is handled.  One      *)
(* action is therefore one handler, or one continuation, together with     *)
(* the effect cleanup of lines 48-57 whenever it changes pdfUrl.           *)
(*                                                                         *)
(* Handlers are invoked whenever the component is mounted; their guards    *)
(* are the conditions of their own code.  Of the markup only the parts     *)
(* the handlers depend on are modelled: the `disabled` loading flags of    *)
(* the buttons (the only re-entrancy guard the code has), and which        *)
(* elements the refs point to (the video element of line 474, the file     *)
(* input of line 529).                                                     *)
(***************************************************************************)
EXTENDS Integers, Sequences, FiniteSets, TLC

(* ---------------------------- bounds ----------------------------------- *)
MaxQueue == 4        \* longest ImageQueue explored
MaxSelect == 2       \* most files in one selection
MaxUrls == 2         \* object URLs created in one run
MaxStreams == 2      \* camera streams requested in one run
MaxLongSelect == 12  \* most files in one selection longer than maxFiles
MaxLongQueue == 10   \* longest ImageQueue such a selection is imported into
MaxPixels == 4000    \* widest and tallest image laid out on a page

(* ----------------------- program constants ----------------------------- *)
maxFiles == 10
maxFileSize == 5242880
batchSize == 3

NULL == 0

\* Encoded images an entry of the queue can hold.  "x" is the string "data:,"
\* that canvas.toDataURL returns for a canvas without pixels (lines 201-216:
\* Math.round gives 0 for a 1 x 4000 image); no image element can decode it.
GoodImages == {"a", "b"}
ImageData == GoodImages \cup {"x"}
Decodable(d) == d \in GoodImages

FileSizes == {maxFileSize, maxFileSize + 1}

VARIABLES
  mounted,      \* the component exists (FALSE after the unmount)
  images,       \* useState images, line 16
  activeTab,    \* useState activeTab, line 17
  cameraActive, \* useState cameraActive, line 18
  pdfUrl,       \* useState pdfUrl, line 19 (NULL or an object URL)
  isLoading,    \* useState isLoading, lines 20-24
  error,        \* useState error, line 25 ("none" for null)
  streamRef,    \* streamRef.current, line 30 (NULL or a stream)
  toast,        \* title of the last toast() call
  liveUrls,     \* object URLs created and not revoked
  nextUrl,      \* the next URL.createObjectURL result
  liveStreams,  \* MediaStreams acquired whose tracks are not stopped
  nextStream,   \* the next getUserMedia result
  camReq,       \* startCamera calls in flight: [env, fb] counts
  batch,        \* the handleFileSelect call in flight: files, loadedCount, ...
  genPc,        \* position of the generatePDF call in flight
  genImages,    \* `images` as captured by the generatePDF closure
  batchIndex,   \* line 289
  genK,         \* images of the current batch already handled (line 295)
  pages,        \* pages of pdfDoc
  processed     \* outcome of each image handled so far ("ok" / "skip")

camVars == <<cameraActive, streamRef, liveStreams, nextStream, camReq>>
genVars == <<genPc, genImages, batchIndex, genK, pages, processed>>
urlVars == <<pdfUrl, liveUrls, nextUrl>>
vars == <<mounted, images, activeTab, isLoading, error, toast, batch,
          camVars, genVars, urlVars>>

(* ---------------------------- helpers ---------------------------------- *)
Min(a, b) == IF a < b THEN a ELSE b

\* Math.ceil(n / d) for naturals
Ceil(n, d) == (n + d - 1) \div d

\* Array.prototype.slice(from, to) with 0-based, end-exclusive indices
Slice(s, from, to) == SubSeq(s, from + 1, Min(to, Len(s)))

\* number of entries of s that are in the set S
CountIn(s, S) == Cardinality({i \in DOMAIN s : s[i] \in S})

\* a state setter of a component that may have been unmounted: React drops
\* updates of an unmounted component
SetState(old, new) == IF mounted THEN new ELSE old

\* videoRef.current is the video element, which line 473 renders only while
\* cameraActive is true (and the camera tab's content is shown)
VideoMounted == mounted /\ cameraActive /\ activeTab = "camera"

\* the file input of line 529 is in the gallery tab's content
FileInputMounted == mounted /\ activeTab = "gallery"

\* track.stop() on every track of streamRef.current, lines 34-37
StopTracks(live, ref) == IF ref # NULL THEN live \ {ref} ELSE live

RevokeForgotten(urls, u) == urls

\* URL.revokeObjectURL
RevokeObjectURL(urls, u) == urls \ {u}

\* cleanupCamera, lines 33-45; `loading` is isLoading as the caller leaves it
cleanupCamera(loading) ==
  /\ liveStreams' = StopTracks(liveStreams, streamRef)
  /\ streamRef' = NULL
  /\ cameraActive' = SetState(cameraActive, FALSE)
  /\ isLoading' = SetState(isLoading, [loading EXCEPT !.camera = FALSE])

CameraUntouched(loading) ==
  /\ UNCHANGED <<liveStreams, streamRef, cameraActive>>
  /\ isLoading' = SetState(isLoading, loading)

\* setPdfUrl(new) followed by the render: when pdfUrl changes, the cleanup of
\* the effect of lines 48-57 runs with the previous pdfUrl.  `urls` is the
\* set of live URLs as the handler leaves it.
SetPdfUrl(new, urls, loading) ==
  /\ pdfUrl' = SetState(pdfUrl, new)
  /\ IF mounted /\ new # pdfUrl
       THEN /\ cleanupCamera(loading)
            /\ liveUrls' = RevokeObjectURL(urls, pdfUrl)
       ELSE /\ CameraUntouched(loading)
            /\ liveUrls' = urls

NoBatch == [sizes |-> <<>>, warned |-> FALSE, files |-> <<>>,
            loadedCount |-> 0, totalFiles |-> 0, reported |-> -1]

\* the state after the first render, lines 16-30, with queue q
InitState(q) ==
  /\ mounted = TRUE
  /\ images = q
  /\ activeTab = "camera"
  /\ cameraActive = FALSE
  /\ pdfUrl = NULL
  /\ isLoading = [camera |-> FALSE, capture |-> FALSE, pdf |-> FALSE]
  /\ error = "none"
  /\ streamRef = NULL
  /\ toast = "none"
  /\ liveUrls = {}
  /\ nextUrl = 1
  /\ liveStreams = {}
  /\ nextStream = 1
  /\ camReq = [env |-> 0, fb |-> 0]
  /\ batch = NoBatch
  /\ genPc = "idle"
  /\ genImages = <<>>
  /\ batchIndex = 0
  /\ genK = 0
  /\ pages = <<>>
  /\ processed = <<>>

Init == InitState(<<>>)

\* setImages([...images, d]) with the queue the handler closed over when the
\* files were selected: what the batch appended since then is lost
AppendToStale(prev, d) ==
  Append(SubSeq(prev, 1, Len(prev) - CountIn(batch.files, {"appended"})), d)

\* the functional update [...prev, imageData] of lines 133 and 217
AppendImage(prev, d) == Append(prev, d)

(* ----------------------------- camera ---------------------------------- *)
\* startCamera up to its first await, lines 60-69
startCamera ==
  /\ mounted
  /\ ~isLoading.camera                                   \* line 484
  /\ nextStream + camReq.env + camReq.fb <= MaxStreams
  /\ error' = "none"
  /\ isLoading' = [isLoading EXCEPT !.camera = TRUE]
  /\ camReq' = [camReq EXCEPT !.env = @ + 1]
  /\ UNCHANGED <<mounted, images, activeTab, toast, batch, cameraActive,
                 streamRef, liveStreams, nextStream, genVars, urlVars>>

\* the stream of a resolved getUserMedia reaches lines 71-75 / 83-87, then the
\* finally block of lines 97-99
StreamAcquired ==
  /\ liveStreams' = liveStreams \cup {nextStream}
  /\ nextStream' = nextStream + 1
  /\ IF VideoMounted
       THEN /\ streamRef' = nextStream
            /\ cameraActive' = TRUE
       ELSE UNCHANGED <<streamRef, cameraActive>>
  /\ isLoading' = SetState(isLoading, [isLoading EXCEPT !.camera = FALSE])
  /\ UNCHANGED <<mounted, images, activeTab, error, toast, batch, genVars,
                 urlVars>>

\* getUserMedia({facingMode: "environment"}) resolves, lines 67-75
EnvStreamResolved ==
  /\ camReq.env > 0
  /\ camReq' = [camReq EXCEPT !.env = @ - 1]
  /\ StreamAcquired

\* it rejects: the catch of line 76 issues the fallback request, lines 76-81
EnvStreamRejected ==
  /\ camReq.env > 0
  /\ camReq' = [camReq EXCEPT !.env = @ - 1, !.fb = @ + 1]
  /\ UNCHANGED <<mounted, images, activeTab, isLoading, error, toast, batch,
                 cameraActive, streamRef, liveStreams, nextStream, genVars,
                 urlVars>>

\* getUserMedia({video: true}) resolves, lines 79-87
FallbackStreamResolved ==
  /\ camReq.fb > 0
  /\ camReq' = [camReq EXCEPT !.fb = @ - 1]
  /\ StreamAcquired

\* it rejects too, and the finally block of lines 97-99 is left out
FallbackStreamRejectedNoFinally ==
  /\ camReq.fb > 0
  /\ camReq' = [camReq EXCEPT !.fb = @ - 1]
  /\ error' = SetState(error, "camera")
  /\ toast' = "Camera Error"
  /\ UNCHANGED <<mounted, images, activeTab, isLoading, batch, cameraActive,
                 streamRef, liveStreams, nextStream, genVars, urlVars>>

\* it rejects too: outer catch and finally, lines 89-99
FallbackStreamRejected ==
  /\ camReq.fb > 0
  /\ camReq' = [camReq EXCEPT !.fb = @ - 1]
  /\ error' = SetState(error, "camera")
  /\ toast' = "Camera Error"
  /\ isLoading' = SetState(isLoading, [isLoading EXCEPT !.camera = FALSE])
  /\ UNCHANGED <<mounted, images, activeTab, batch, cameraActive, streamRef,
                 liveStreams, nextStream, genVars, urlVars>>

\* stopCamera, lines 103-105
stopCamera ==
  /\ mounted
  /\ cleanupCamera(isLoading)
  /\ UNCHANGED <<mounted, images, activeTab, error, toast, batch, nextStream,
                 camReq, genVars, urlVars>>

\* captureImage, lines 107-150.  `ready` is video.videoWidth and videoHeight
\* being non-zero (line 116), `ctx` whether getContext gave a context (line
\* 124), d the frame as canvas.toDataURL encodes it.  The canvas of line 520
\* is in the camera tab, like the video element.  Without a video element the
\* handler does nothing but set and clear its loading flag.
captureImage(ready, ctx, d) ==
  /\ mounted
  /\ ~isLoading.capture                                  \* line 499
  /\ IF VideoMounted
       THEN IF ready /\ ctx
              THEN /\ Len(images) < MaxQueue
                   /\ images' = AppendImage(images, d)
                   /\ toast' = "Image Captured"
              ELSE /\ toast' = "Capture Failed"
                   /\ UNCHANGED images
       ELSE UNCHANGED <<images, toast>>
  /\ isLoading' = [isLoading EXCEPT !.capture = FALSE]
  /\ UNCHANGED <<mounted, activeTab, error, batch, camVars, genVars, urlVars>>

\* handleTabChange, lines 417-423 (called when the selected tab changes)
handleTabChange(value) ==
  /\ mounted
  /\ value # activeTab
  /\ activeTab' = value
  /\ IF value # "camera" /\ cameraActive
       THEN cleanupCamera(isLoading)
       ELSE CameraUntouched(isLoading)
  /\ error' = "none"
  /\ UNCHANGED <<mounted, images, toast, batch, nextStream, camReq, genVars,
                 urlVars>>

(* --------------------------- file import -------------------------------- *)
\* selections of the file input: the size of each selected file
Selections == UNION {[1..n -> FileSizes] : n \in 0..MaxSelect}

\* Array.from(files).slice(0, maxFiles), line 161
\* the selection is processed whole
FilesToProcessAll(sel) == sel

FilesToProcess(sel) == Slice(sel, 0, maxFiles)

\* the size check of line 175
TooLarge(size) == size > maxFileSize

\* a file that was skipped or failed keeps the files after it from loading
PendingBlocked(b) ==
  {i \in DOMAIN b.files :
     /\ b.files[i] = "pending"
     /\ \A j \in 1..(i - 1) : b.files[j] \in {"pending", "appended"}}

\* the files whose reader or image is still loading, lines 185-243
Pending(b) == {i \in DOMAIN b.files : b.files[i] = "pending"}

\* handleFileSelect leaves room in the queue explored for every file it starts
QueueHasRoom(sel, max) ==
  Len(images) + CountIn(FilesToProcess(sel), {z \in FileSizes : ~TooLarge(z)})
    <= max

\* handleFileSelect, lines 153-250: the synchronous part.  Files over the
\* size limit are counted and skipped in the forEach; a reader is started for
\* each of the others.
handleFileSelect(sel) ==
  /\ FileInputMounted
  /\ Pending(batch) = {}
  /\ LET files == FilesToProcess(sel)
         status == [i \in DOMAIN files |->
                      IF TooLarge(files[i]) THEN "skipped" ELSE "pending"]
     IN IF Len(sel) = 0
          THEN UNCHANGED <<error, toast, batch>>             \* line 155
          ELSE /\ error' = "none"
               /\ toast' = IF CountIn(status, {"skipped"}) > 0
                             THEN "File too large"
                             ELSE IF Len(sel) > maxFiles THEN "Too many files"
                             ELSE toast
               /\ batch' = [sizes |-> files,
                            warned |-> Len(sel) > maxFiles,       \* line 163
                            files |-> status,
                            loadedCount |-> CountIn(status, {"skipped"}),
                            totalFiles |-> Len(files),
                            reported |-> -1]
  /\ UNCHANGED <<mounted, images, activeTab, isLoading, camVars, genVars,
                 urlVars>>

\* img.onload of file i, lines 191-227.  ctx says whether getContext("2d")
\* returned a context; d is what canvas.toDataURL returns
imgOnload(i, ctx, d) ==
  /\ i \in Pending(batch)
  /\ LET count == batch.loadedCount + 1
         done == count = batch.totalFiles
     IN /\ images' = IF ctx THEN SetState(images, AppendImage(images, d))
                             ELSE images
        /\ batch' = [batch EXCEPT
                       !.files[i] = IF ~ctx THEN "noctx"
                                    ELSE IF mounted THEN "appended"
                                    ELSE "unmounted",
                       !.loadedCount = count,
                       !.reported = IF done THEN count ELSE @]
        /\ toast' = IF done THEN "Images Loaded" ELSE toast
  /\ UNCHANGED <<mounted, activeTab, isLoading, error, camVars, genVars,
                 urlVars>>

\* reader.onerror of file i, lines 233-241
readerOnerror(i) ==
  /\ i \in Pending(batch)
  /\ batch' = [batch EXCEPT !.files[i] = "readfail",
                            !.loadedCount = @ + 1]
  /\ toast' = "File Error"
  /\ UNCHANGED <<mounted, images, activeTab, isLoading, error, camVars,
                 genVars, urlVars>>

\* the image of file i cannot be decoded: the error event of the img element
\* of line 190 has no handler, so nothing of the program runs
imgDecodeError(i) ==
  /\ i \in Pending(batch)
  /\ batch' = [batch EXCEPT !.files[i] = "decodefail"]
  /\ UNCHANGED <<mounted, images, activeTab, isLoading, error, toast, camVars,
                 genVars, urlVars>>

(* ------------------------------ queue ---------------------------------- *)
\* prev.filter((_, i) => i !== index), line 254 (index is 0-based)
\* prev.filter(img => img !== prev[index]): every copy of the entry goes
FilterOutValue(s, index) ==
  IF index + 1 \in DOMAIN s
  THEN SelectSeq(s, LAMBDA e : e # s[index + 1])
  ELSE s

RECURSIVE FilterOut(_, _)
FilterOut(s, index) ==
  IF s = <<>> THEN <<>>
  ELSE IF index = 0 THEN Tail(s)
  ELSE <<Head(s)>> \o FilterOut(Tail(s), index - 1)

\* removeImage, lines 253-259
removeImage(index) ==
  /\ mounted
  /\ images' = FilterOut(images, index)
  /\ toast' = "Image Removed"
  /\ UNCHANGED <<mounted, activeTab, isLoading, error, batch, camVars,
                 genVars, urlVars>>

(* ------------------------- document assembly ---------------------------- *)
\* what the steps of lines 297-369 do with one image whose load event fired:
\* "ok" adds its page; "skip" is `if (!ctx) continue` (line 312) or a
\* rejected embedPng (line 331, caught at line 370)
ImageOutcomes == {"ok", "skip"}

\* lines 287, 290-292
totalBatches == Ceil(Len(genImages), batchSize)
batchStart == batchIndex * batchSize
batchEndOverlapping == Min((batchIndex + 1) * batchSize + 1, Len(genImages))
batchEnd == Min((batchIndex + 1) * batchSize, Len(genImages))
CurrentBatch == Slice(genImages, batchStart, batchEnd)

\* generatePDF without the test of line 263
generatePDFUnguarded ==
  /\ mounted
  /\ ~isLoading.pdf
  /\ nextUrl <= MaxUrls
  /\ error' = "none"
  /\ SetPdfUrl(NULL, RevokeObjectURL(liveUrls, pdfUrl),
               [isLoading EXCEPT !.pdf = TRUE])
  /\ genPc' = "create"
  /\ genImages' = images
  /\ batchIndex' = 0
  /\ genK' = 0
  /\ pages' = <<>>
  /\ processed' = <<>>
  /\ UNCHANGED <<toast, nextUrl, nextStream, camReq>>
  /\ UNCHANGED <<mounted, images, activeTab, batch>>

\* generatePDF up to its first await, lines 262-283
generatePDF ==
  /\ mounted
  /\ ~isLoading.pdf                                      \* line 570
  /\ IF Len(images) = 0
       THEN /\ toast' = "No Images"
            /\ UNCHANGED <<isLoading, error, camVars, genVars, urlVars>>
       ELSE /\ nextUrl <= MaxUrls
            /\ error' = "none"
            /\ SetPdfUrl(NULL, RevokeObjectURL(liveUrls, pdfUrl),
                         [isLoading EXCEPT !.pdf = TRUE])
            /\ genPc' = "create"
            /\ genImages' = images
            /\ batchIndex' = 0
            /\ genK' = 0
            /\ pages' = <<>>
            /\ processed' = <<>>
            /\ UNCHANGED <<toast, nextUrl, nextStream, camReq>>
  /\ UNCHANGED <<mounted, images, activeTab, batch>>

\* generatePDF returns: its locals (the closure's images, pdfDoc, the loop
\* variables) are gone
GenerationReturns ==
  /\ genPc' = "idle"
  /\ genImages' = <<>>
  /\ batchIndex' = 0
  /\ genK' = 0
  /\ pages' = <<>>
  /\ processed' = <<>>

\* the catch of generatePDF without its finally
GenerationFailedNoFinally ==
  /\ error' = SetState(error, "pdf")
  /\ toast' = "PDF Generation Failed"
  /\ GenerationReturns
  /\ UNCHANGED <<mounted, images, activeTab, batch, camVars, urlVars,
                 isLoading>>

\* catch and finally of generatePDF, lines 392-402
GenerationFailed ==
  /\ error' = SetState(error, "pdf")
  /\ toast' = "PDF Generation Failed"
  /\ isLoading' = SetState(isLoading, [isLoading EXCEPT !.pdf = FALSE])
  /\ GenerationReturns
  /\ UNCHANGED <<mounted, images, activeTab, batch, camVars, urlVars>>

\* PDFDocument.create() resolves, lines 283-289
documentCreated ==
  /\ genPc = "create"
  /\ genPc' = IF 0 < totalBatches THEN "image" ELSE "save"
  /\ UNCHANGED <<mounted, images, activeTab, isLoading, error, toast, batch,
                 camVars, urlVars, genImages, batchIndex, genK, pages,
                 processed>>

\* PDFDocument.create() rejects
documentCreateRejected ==
  /\ genPc = "create"
  /\ GenerationFailed

\* one iteration of the loop of line 295, lines 296-373.  The promise of
\* lines 302-304 is resolved by the load event only: for an image that cannot
\* be decoded it stays pending.  The steps after addPage (drawImage, embedFont
\* of a standard font, drawText of " ", lines 354-369) take nothing that
\* depends on the image and are taken to succeed.
processImage(outcome) ==
  /\ genPc = "image"
  /\ LET imageData == CurrentBatch[genK + 1]
     IN /\ Decodable(imageData)
        /\ pages' = IF outcome = "ok" THEN Append(pages, imageData) ELSE pages
        /\ processed' = Append(processed, outcome)
  /\ genK' = genK + 1
  /\ genPc' = IF genK + 1 < Len(CurrentBatch) THEN "image" ELSE "yield"
  /\ UNCHANGED <<mounted, images, activeTab, isLoading, error, toast, batch,
                 camVars, urlVars, genImages, batchIndex>>

(* Page layout, lines 333-351.  The dimensions are JavaScript numbers; they  *)
(* are modelled as exact fractions [n, d] in lowest terms, so the rounding   *)
(* of a double (a relative error of 2^-53 per operation) is left out.       *)
RECURSIVE GCD(_, _)
GCD(a, b) == IF b = 0 THEN a ELSE GCD(b, a % b)

Rat(n, d) == LET g == GCD(n, d) IN [n |-> n \div g, d |-> d \div g]
Times(a, b) == Rat(a.n * b.n, a.d * b.d)
Over(a, b) == Rat(a.n * b.d, a.d * b.n)
Plus(a, b) == Rat(a.n * b.d + b.n * a.d, a.d * b.d)
Greater(a, b) == a.n * b.d > b.n * a.d

MAX_WIDTH == Rat(792 - 40, 1)        \* line 333
MAX_HEIGHT == Rat(612 - 60, 1)       \* line 334

\* each side is cut to its limit and the other side is left alone
FitClamped(w, h) ==
  [width |-> IF w > 752 THEN Rat(752, 1) ELSE Rat(w, 1),
   height |-> IF h > 552 THEN Rat(552, 1) ELSE Rat(h, 1)]

\* the image is always scaled to the full width, then cut to the height
FitAlwaysScaled(w, h) ==
  LET height1 == Over(Times(Rat(h, 1), Rat(752, 1)), Rat(w, 1))
      scale == Greater(height1, Rat(552, 1))
  IN [width |-> IF scale THEN Over(Times(Rat(752, 1), Rat(552, 1)), height1)
                ELSE Rat(752, 1),
      height |-> IF scale THEN Rat(552, 1) ELSE height1]

\* lines 337-349: the width and height the image is drawn with
FitToPage(w, h) ==
  LET width0 == Rat(w, 1)
      height0 == Rat(h, 1)
      wide == Greater(width0, MAX_WIDTH)                       \* line 340
      height1 == IF wide THEN Over(Times(height0, MAX_WIDTH), width0)
                 ELSE height0
      width1 == IF wide THEN MAX_WIDTH ELSE width0
      tall == Greater(height1, MAX_HEIGHT)                     \* line 345
      width2 == IF tall THEN Over(Times(width1, MAX_HEIGHT), height1)
                ELSE width1
      height2 == IF tall THEN MAX_HEIGHT ELSE height1
  IN [width |-> width2, height |-> height2]

\* lines 351-360: the page added for an embedded image of w x h pixels and
\* the size the image is drawn with on it
Page(w, h) ==
  LET fit == FitToPage(w, h)
  IN [image |-> <<w, h>>,
      width |-> fit.width,
      height |-> fit.height,
      pageWidth |-> Plus(fit.width, Rat(40, 1)),
      pageHeight |-> Plus(fit.height, Rat(60, 1))]

\* processImage for a queue whose entries are given by their pixel size
\* <<w, h>>: the image loads, is embedded and gets its page, lines 297-360
addPage ==
  /\ genPc = "image"
  /\ LET embeddedImage == CurrentBatch[genK + 1]
     IN pages' = Append(pages, Page(embeddedImage[1], embeddedImage[2]))
  /\ processed' = Append(processed, "ok")
  /\ genK' = genK + 1
  /\ genPc' = IF genK + 1 < Len(CurrentBatch) THEN "image" ELSE "yield"
  /\ UNCHANGED <<mounted, images, activeTab, isLoading, error, toast, batch,
                 camVars, urlVars, genImages, batchIndex>>

\* the timeout of line 377 fires, then the loop test of line 289
batchYielded ==
  /\ genPc = "yield"
  /\ batchIndex' = batchIndex + 1
  /\ genK' = 0
  /\ genPc' = IF batchIndex + 1 < totalBatches THEN "image" ELSE "save"
  /\ UNCHANGED <<mounted, images, activeTab, isLoading, error, toast, batch,
                 camVars, urlVars, genImages, pages, processed>>

\* pdfDoc.save() resolves, lines 381-391 and 400-402
documentSaved ==
  /\ genPc = "save"
  /\ SetPdfUrl(nextUrl, liveUrls \cup {nextUrl},
               [isLoading EXCEPT !.pdf = FALSE])
  /\ nextUrl' = nextUrl + 1
  /\ toast' = "PDF Generated"
  /\ GenerationReturns
  /\ UNCHANGED <<mounted, images, activeTab, error, batch, nextStream, camReq>>

\* pdfDoc.save() rejects
documentSaveRejected ==
  /\ genPc = "save"
  /\ GenerationFailed

\* downloadPDF, lines 406-414
downloadPDF ==
  /\ mounted
  /\ toast' = IF pdfUrl # NULL THEN "Download Started" ELSE toast
  /\ UNCHANGED <<mounted, images, activeTab, isLoading, error, batch, camVars,
                 genVars, urlVars>>

(* ------------------------- reset and teardown --------------------------- *)
\* resetAll, lines 426-443
resetAll ==
  /\ mounted
  /\ images' = <<>>
  /\ error' = "none"
  /\ toast' = "Reset Complete"
  /\ IF cameraActive
       THEN /\ cleanupCamera(isLoading)                       \* line 428
            /\ pdfUrl' = NULL
            /\ liveUrls' = RevokeObjectURL(liveUrls, pdfUrl)
       ELSE SetPdfUrl(NULL, RevokeObjectURL(liveUrls, pdfUrl), isLoading)
  /\ UNCHANGED <<mounted, activeTab, batch, nextStream, camReq, nextUrl,
                 genVars>>

\* the component is unmounted: the effect cleanup of lines 49-56 runs
unmount ==
  /\ mounted
  /\ mounted' = FALSE
  /\ cleanupCamera(isLoading)
  /\ liveUrls' = RevokeObjectURL(liveUrls, pdfUrl)
  /\ UNCHANGED <<images, activeTab, error, toast, batch, nextStream, camReq,
                 pdfUrl, nextUrl, genVars>>

(* --------------------------- specification ------------------------------ *)
Tabs == {"camera", "gallery"}

CameraStep ==
  \/ startCamera
  \/ EnvStreamResolved
  \/ EnvStreamRejected
  \/ FallbackStreamResolved
  \/ FallbackStreamRejected
  \/ stopCamera
  \/ \E ready \in BOOLEAN, ctx \in BOOLEAN, d \in GoodImages :
       captureImage(ready, ctx, d)

ImportStep ==
  \/ \E sel \in Selections : QueueHasRoom(sel, MaxQueue) /\ handleFileSelect(sel)
  \/ \E i \in 1..MaxSelect, ctx \in BOOLEAN, d \in ImageData : imgOnload(i, ctx, d)
  \/ \E i \in 1..MaxSelect : readerOnerror(i)
  \/ \E i \in 1..MaxSelect : imgDecodeError(i)

\* The event loop runs every continuation of generatePDF whose promise has
\* settled and every timer that is due
GenerationStep ==
  \/ documentCreated
  \/ documentCreateRejected
  \/ \E outcome \in ImageOutcomes : processImage(outcome)
  \/ batchYielded
  \/ documentSaved
  \/ documentSaveRejected

\* The whole component.
Next ==
  \/ CameraStep
  \/ \E value \in Tabs : handleTabChange(value)
  \/ ImportStep
  \/ \E index \in 0..MaxQueue : removeImage(index)
  \/ generatePDF
  \/ GenerationStep
  \/ downloadPDF
  \/ resetAll
  \/ unmount

Spec == Init /\ [][Next]_vars

(***************************************************************************)
(* The state space of Spec is the product of the queue, the import in      *)
(* flight, the generation in flight and the camera.  It is explored in     *)
(* three parts.  Each part starts in states Spec reaches and takes steps   *)
(* of Next only, so each of its behaviours is the end of a behaviour of    *)
(* Spec (up to toast and batch, which record the import that built the     *)
(* queue and which only the import reads).  What a part leaves out does    *)
(* not write what its actions read:                                        *)
(* the import and removeImage write only images, batch, error and toast;   *)
(* generatePDF reads images once, when it is called (line 292 reads the    *)
(* closure's copy); the camera actions read and write neither images nor   *)
(* the generation's locals.                                                *)
(***************************************************************************)

\* every queue the import can build (SpecImport reaches each of them)
Queues == UNION {[1..n -> ImageData] : n \in 0..MaxQueue}

\* the import and the queue
NextImport ==
  \/ \E value \in Tabs : handleTabChange(value)
  \/ ImportStep
  \/ \E index \in 0..MaxQueue : removeImage(index)
  \/ resetAll
  \/ unmount

SpecImport == Init /\ [][NextImport]_vars

\* for every reader it started the browser delivers load or error, and for
\* every image load or error
FileEvent(i) ==
  \/ \E ctx \in BOOLEAN, d \in ImageData : imgOnload(i, ctx, d)
  \/ readerOnerror(i)
  \/ imgDecodeError(i)

\* selections longer than maxFiles: up to MaxLongSelect files, none of them
\* oversized or one that is (the first, the last one kept or the first one
\* cut), each file loading an image that decodes
LongSelections ==
  UNION {{[i \in 1..n |-> IF i = k THEN maxFileSize + 1 ELSE maxFileSize] :
            k \in {0, 1, maxFiles, maxFiles + 1}} : n \in 0..MaxLongSelect}

NextLongImport ==
  \/ \E value \in Tabs : handleTabChange(value)
  \/ \E sel \in LongSelections :
       QueueHasRoom(sel, MaxLongQueue) /\ handleFileSelect(sel)
  \/ \E i \in 1..maxFiles : imgOnload(i, TRUE, "a")

SpecLongImport == Init /\ [][NextLongImport]_vars

FairSpecImport == SpecImport /\ \A i \in 1..MaxSelect : WF_vars(FileEvent(i))

\* document assembly, from any queue, with removals while it runs
InitAssemble == \E q \in Queues : InitState(q)

NextAssemble ==
  \/ \E index \in 0..MaxQueue : removeImage(index)
  \/ generatePDF
  \/ GenerationStep
  \/ downloadPDF
  \/ resetAll
  \/ unmount

SpecAssemble == InitAssemble /\ [][NextAssemble]_vars

FairSpecAssemble == SpecAssemble /\ WF_vars(GenerationStep)

\* the layout of the pages: the queue holds one image, given by its pixel
\* size, and a document is generated from it
PixelSizes == {1, 2, 300, 551, 552, 553, 751, 752, 753, 1080, 1800, 1920,
               MaxPixels}

InitPage == \E w \in PixelSizes, h \in PixelSizes : InitState(<< <<w, h>> >>)

NextPage ==
  \/ generatePDF
  \/ documentCreated
  \/ addPage
  \/ batchYielded
  \/ documentSaved

SpecPage == InitPage /\ [][NextPage]_vars

\* the camera, with the operations that release it and a one-image queue to
\* generate documents from
InitCamera == \E q \in {<<>>, <<"a">>} : InitState(q)

NextCamera ==
  \/ CameraStep
  \/ \E value \in Tabs : handleTabChange(value)
  \/ generatePDF
  \/ GenerationStep
  \/ resetAll
  \/ unmount

SpecCamera == InitCamera /\ [][NextCamera]_vars

TypeOK ==
  /\ mounted \in BOOLEAN
  /\ images \in Seq(ImageData) /\ Len(images) <= MaxQueue
  /\ activeTab \in Tabs
  /\ cameraActive \in BOOLEAN
  /\ pdfUrl \in 0..MaxUrls
  /\ error \in {"none", "camera", "pdf"}
  /\ streamRef \in 0..MaxStreams
  /\ liveUrls \subseteq 1..MaxUrls
  /\ liveStreams \subseteq 1..MaxStreams
  /\ genPc \in {"idle", "create", "image", "yield", "save"}
  /\ (mounted => (isLoading.pdf <=> genPc # "idle"))

(* ------------------------------ claims ---------------------------------- *)
\* the pages that one page per successfully processed image, in the order of
\* imgs, gives when outs are the outcomes of the first Len(outs) images
RECURSIVE PagesOf(_, _)
PagesOf(imgs, outs) ==
  IF outs = <<>> \/ imgs = <<>> THEN <<>>
  ELSE (IF Head(outs) = "ok" THEN <<Head(imgs)>> ELSE <<>>)
         \o PagesOf(Tail(imgs), Tail(outs))

\* C1: at every point of a generation the document holds exactly one page
\* for each image processed successfully so far, in the order of the queue as
\* generatePDF captured it, and when the document is handed to save() every
\* image of that queue has been processed exactly once.
C1_OnePagePerImageInQueueOrder ==
  /\ pages = PagesOf(genImages, processed)
  /\ Len(processed) <= Len(genImages)
  /\ genPc = "save" => Len(processed) = Len(genImages)

\* a document of a four-image queue (two batches) with one image skipped
C1_Witness ==
  /\ genPc = "save"
  /\ genImages = <<"a", "b", "b", "a">>
  /\ processed = <<"ok", "skip", "ok", "ok">>
  /\ pages = <<"a", "b", "a">>

\* the generation is waiting for the load event of an image that cannot be
\* decoded
AtUndecodableImage ==
  /\ genPc = "image"
  /\ ~Decodable(CurrentBatch[genK + 1])

\* images of the captured queue that failed: skipped ones and undecodable ones
FailedImages ==
  CountIn(processed, {"skip"}) + CountIn(genImages, ImageData \ GoodImages)

\* C2: an image that fails during its processing (here: one that cannot be
\* decoded) is skipped and the generation goes on to a document with one page
\* for each of the other images.
C2_FailedImageSkipped ==
  AtUndecodableImage ~>
    (genPc = "save" /\ Len(pages) = Len(genImages) - FailedImages)

\* C3: every generation that starts leaves Generating, ending Ready (a
\* document reference) or Failed (an error), with the pdf loading flag false.
C3_GenerationEnds ==
  (mounted /\ genPc # "idle") ~>
    (\/ ~mounted
     \/ /\ genPc = "idle"
        /\ ~isLoading.pdf
        /\ (pdfUrl # NULL \/ error = "pdf"))

\* C4: at most one object URL is live in every state, and a URL is created
\* only when no URL is live (the previous one has been revoked before).
C4_AtMostOneLiveUrl ==
  /\ [](Cardinality(liveUrls) <= 1)
  /\ [][nextUrl' # nextUrl => liveUrls = {}]_vars

\* the second document is Ready and the first one's URL is revoked
C4_Witness ==
  /\ mounted
  /\ nextUrl = 3
  /\ pdfUrl = 2
  /\ liveUrls = {2}

\* C5: when a stream request of startCamera succeeds, the acquired stream
\* becomes the camera handle and cameraActive becomes true.
C5_AcquiredStreamBecomesHandle ==
  [][(mounted /\ (EnvStreamResolved \/ FallbackStreamResolved))
       => (streamRef' = nextStream /\ cameraActive')]_vars

ExitPath ==
  \/ stopCamera
  \/ \E value \in Tabs \ {"camera"} : handleTabChange(value)
  \/ resetAll
  \/ unmount

\* C6: after a stop request, a tab switch away from the camera view, a reset
\* and the teardown, every acquired stream has its tracks stopped, the stream
\* handle is null and cameraActive is false.
C6_CameraReleasedOnExit ==
  [][ExitPath => (liveStreams' = {} /\ streamRef' = NULL /\ ~cameraActive')]_vars

\* C7: generatePDF on an empty queue creates no document and changes nothing
\* of the session: queue, document reference and its URL, camera handle and
\* streams, loading flags, error, and no generation is started.
C7_EmptyQueueChangesNothing ==
  [][(generatePDF /\ Len(images) = 0)
       => UNCHANGED <<images, pdfUrl, liveUrls, nextUrl, streamRef,
                      cameraActive, liveStreams, isLoading, error, genPc>>]_vars

\* generatePDF was called on an empty queue while a document was Ready
C7_Witness ==
  /\ toast = "No Images"
  /\ images = <<>>
  /\ pdfUrl # NULL
  /\ pdfUrl \in liveUrls
  /\ genPc = "idle"

\* C8: when document creation or serialization fails, no document is live
\* afterwards, the error is set, the pdf loading flag is cleared and a new
\* generate request is permitted (line 570).
C8_AssemblerFailureAborts ==
  [][(mounted /\ (documentCreateRejected \/ documentSaveRejected))
       => /\ pdfUrl' = NULL
          /\ liveUrls' = {}
          /\ error' = "pdf"
          /\ ~isLoading'.pdf
          /\ genPc' = "idle"]_vars

\* a generation failed after an earlier one had produced a document
C8_Witness ==
  /\ mounted
  /\ toast = "PDF Generation Failed"
  /\ error = "pdf"
  /\ nextUrl = 2
  /\ pdfUrl = NULL
  /\ liveUrls = {}
  /\ ~isLoading.pdf

\* every file of the batch has finished: appended, skipped, failed to read or
\* to decode
AllFilesFinished == batch.totalFiles > 0 /\ Pending(batch) = {}

\* C9: once every file of an import has finished, the aggregate report has
\* been emitted.
C9_ReportOnceAllFinished == AllFilesFinished => batch.reported >= 0

\* C10: the count of the aggregate report is the number of images of the
\* batch that were appended to the queue.
C10_ReportCountsAppended ==
  batch.reported >= 0 => batch.reported = CountIn(batch.files, {"appended"})

\* C11: a file over 5 MB is skipped, and only such a file is; a skipped file
\* is never appended; every other file of the batch finishes, whatever became
\* of the files before it, and when its image has loaded it is appended to
\* the end of the queue, once.
C11_OversizedSkippedOthersProcessed ==
  /\ [](\A i \in DOMAIN batch.files :
          TooLarge(batch.sizes[i]) <=> batch.files[i] = "skipped")
  /\ [][\A i \in DOMAIN batch.files :
          (batch.files[i] \in {"skipped", "appended"} /\ batch'.sizes = batch.sizes
             /\ batch'.loadedCount >= batch.loadedCount)
            => batch'.files[i] = batch.files[i]]_vars
  /\ [][\A i \in DOMAIN batch.files :
          (mounted /\ batch.files[i] = "pending" /\ i \in DOMAIN batch'.files
             /\ batch'.files[i] = "appended")
            => (Len(images') = Len(images) + 1
                /\ SubSeq(images', 1, Len(images)) = images)]_vars
  /\ \A i \in 1..MaxSelect :
       [](i \in DOMAIN batch.files /\ batch.files[i] = "pending"
            => <>(i \in DOMAIN batch.files /\ batch.files[i] # "pending"))

\* the first file was skipped as oversized, or failed to read or to decode,
\* and the second one was appended
C11_Witness ==
  /\ mounted
  /\ batch.sizes = <<maxFileSize + 1, maxFileSize>>
  /\ batch.files = <<"skipped", "appended">>
  /\ images = <<"a">>

\* C12: a selection of more than 10 files is cut to its first 10, in order,
\* and the "Too many files" warning is given exactly for such a selection; one
\* import never has more than 10 files and never appends more than 10 images.
C12_FirstTenProcessed ==
  /\ [](Len(batch.files) <= maxFiles
          /\ CountIn(batch.files, {"appended"}) <= maxFiles)
  /\ [][\A sel \in LongSelections :
          (sel # <<>> /\ handleFileSelect(sel))
            => /\ batch'.sizes = SubSeq(sel, 1, Min(Len(sel), maxFiles))
               /\ batch'.warned = (Len(sel) > maxFiles)]_vars

\* a selection that was cut has had all of its 10 files appended
C12_Witness ==
  /\ batch.warned
  /\ Len(batch.files) = maxFiles
  /\ CountIn(batch.files, {"appended"}) = maxFiles
  /\ Len(images) = maxFiles

\* C13: removeImage(index) with index in range takes exactly the entry at
\* that index out of the queue, the others keeping their order (copies of the
\* entry elsewhere stay); with index out of range the queue is unchanged.
C13_RemoveKeepsOthersInOrder ==
  [][\A index \in 0..MaxQueue :
       removeImage(index)
         => images' = IF index < Len(images)
                      THEN SubSeq(images, 1, index)
                             \o SubSeq(images, index + 2, Len(images))
                      ELSE images]_vars

\* the second of four images was removed while a generation that had copied
\* the queue was running; the other copy of it is still there
C13_Witness ==
  /\ genPc # "idle"
  /\ genImages = <<"a", "b", "a", "b">>
  /\ images = <<"a", "a", "b">>
  /\ toast = "Image Removed"

\* C14: an image wider than 752 or taller than 552 is drawn at most 752 wide
\* and at most 552 tall, with the ratio of width to height of its source.
C14_LargeImageScaledInRatio ==
  \A k \in DOMAIN pages :
    LET p == pages[k]
    IN (p.image[1] > 752 \/ p.image[2] > 552)
         => /\ ~Greater(p.width, Rat(752, 1))
            /\ ~Greater(p.height, Rat(552, 1))
            /\ Over(p.width, p.height) = Rat(p.image[1], p.image[2])

\* an image of 1800 x 1800 was cut to the width and then to the height
C14_Witness ==
  /\ pages # <<>>
  /\ pages[1].image = <<1800, 1800>>
  /\ pages[1].width = Rat(552, 1)
  /\ pages[1].height = Rat(552, 1)

\* C15: an image at most 752 wide and at most 552 tall is drawn with its own
\* width and height, on a page of (width + 40) x (height + 60).
C15_SmallImageKeepsItsSize ==
  \A k \in DOMAIN pages :
    LET p == pages[k]
    IN (p.image[1] <= 752 /\ p.image[2] <= 552)
         => /\ p.width = Rat(p.image[1], 1)
            /\ p.height = Rat(p.image[2], 1)
            /\ p.pageWidth = Rat(p.image[1] + 40, 1)
            /\ p.pageHeight = Rat(p.image[2] + 60, 1)

\* an image of exactly 752 x 552 got a page of 792 x 612
C15_Witness ==
  /\ pages # <<>>
  /\ pages[1].image = <<752, 552>>
  /\ pages[1].pageWidth = Rat(792, 1)
  /\ pages[1].pageHeight = Rat(612, 1)

\* C16: stopCamera while no stream is held changes nothing: the queue, the
\* camera handle, cameraActive, the loading flags (that of a start request
\* still in flight too), the document reference and the error stay as they are.
C16_StopWithoutStreamChangesNothing ==
  [][(stopCamera /\ streamRef = NULL)
       => UNCHANGED <<images, streamRef, cameraActive, isLoading, pdfUrl,
                      error>>]_vars

\* C17: when both camera requests of a startCamera are rejected, the error is
\* set and the camera loading flag is cleared; the queue, the camera handle,
\* cameraActive and the document reference stay as they are.
C17_FailedStartSetsErrorOnly ==
  [][(mounted /\ FallbackStreamRejected)
       => /\ error' = "camera"
          /\ ~isLoading'.camera
          /\ UNCHANGED <<images, streamRef, cameraActive, pdfUrl, liveUrls,
                         liveStreams>>]_vars

\* the fallback request of a start was rejected: the error is shown and no
\* request is left
C17_Witness ==
  /\ mounted
  /\ toast = "Camera Error"
  /\ error = "camera"
  /\ ~isLoading.camera
  /\ camReq = [env |-> 0, fb |-> 0]
  /\ liveStreams = {}

\* C18: a capture made while a camera stream is running has one of two
\* outcomes: with the frame not ready it fails with an error that is shown and
\* the queue unchanged, otherwise exactly one image is appended at the end of
\* the queue, the entries before it unchanged; either way the capture loading
\* flag is false afterwards.
CaptureAppendsOrFails ==
  \E ready \in BOOLEAN, ctx \in BOOLEAN, d \in GoodImages :
    /\ captureImage(ready, ctx, d)
    /\ \/ images' = Append(images, d)
       \/ images' = images /\ toast' = "Capture Failed"
    /\ ~isLoading'.capture

C19_ResetClearsSession ==
  [][resetAll
       => /\ images' = <<>>
          /\ pdfUrl' = NULL
          /\ liveUrls' = {}
          /\ liveStreams' = {}
          /\ streamRef' = NULL
          /\ ~cameraActive'
          /\ error' = "none"]_vars

\* C20: an image is appended at the end of the queue at the step at which
\* its load completes; whatever the order of completions and removals, a step
\* that lengthens the queue adds one entry after the entries it had, and the
\* queue changes in no other way than by one append, one removal or a reset.
C20_AppendKeepsEntries ==
  [][/\ \A i \in 1..MaxSelect, d \in ImageData :
          (mounted /\ imgOnload(i, TRUE, d)) => images' = Append(images, d)
     /\ Len(images') > Len(images)
          => /\ Len(images') = Len(images) + 1
             /\ SubSeq(images', 1, Len(images)) = images
     /\ images' # images
          => \/ \E d \in ImageData : images' = Append(images, d)
             \/ \E k \in 1..Len(images) :
                  images' = SubSeq(images, 1, k - 1)
                              \o SubSeq(images, k + 1, Len(images))
             \/ images' = <<>>]_vars

\* the second file of a selection completed before the first and was
\* appended behind the image the queue had
C20_Witness ==
  /\ mounted
  /\ batch.files = <<"pending", "appended">>
  /\ images = <<"a", "b">>

\* C21: every camera stream that was acquired and whose tracks were not
\* stopped is the stream held in streamRef; no stream runs unreferenced.
C21_RunningStreamIsHandle ==
  \A stream \in liveStreams : stream = streamRef

\* C22: generating a document leaves the camera untouched: no step of a
\* generation, the installing of the new document reference included, changes
\* the running streams, the camera handle, cameraActive or the loading flag
\* of the camera.
C22_GenerationLeavesCamera ==
  [][(generatePDF \/ GenerationStep)
       => /\ UNCHANGED <<liveStreams, streamRef, cameraActive>>
          /\ isLoading'.camera = isLoading.camera]_vars

====
